---- MODULE Spec2Model ----
(***************************************************************************)
(* Model of services/core.py (HTTPClientPool, BaseAPIService) and          *)
(* utils/proxy_config.py (get_socks5_proxy_url).                           *)
(*                                                                         *)
(* Python values are represented as follows.                               *)
(*   - str: a sequence of tokens; "socks5://t" is <<"socks5","://","t">>,  *)
(*     the empty string is <<>>.  A token is a run of characters no        *)
(*     prefix test of the program cuts in two.                             *)
(*   - None (where a str may stand): the one-token sequence None.          *)
(*   - an httpx.AsyncClient: its index in the sequence handles, which      *)
(*     holds every client object ever constructed (0 = no client).         *)
(*   - dict: a sequence of <<key, value>> pairs in insertion order.        *)
(*   - an event loop: a name in Loops; id(loop) is its address LoopAddr.   *)
(***************************************************************************)
EXTENDS Integers, Sequences, FiniteSets, TLC

VARIABLES
    clients,        \* HTTPClientPool._clients: dict cache_key -> client
    loop_id,        \* HTTPClientPool._loop_id: 0 (None) or id of a loop
    handles,        \* every AsyncClient constructed: [cfg, is_closed, tried]
    SOCKS_AVAILABLE,        \* module flag _SOCKS_AVAILABLE
    PROXY_CONFIG_AVAILABLE, \* module flag _PROXY_CONFIG_AVAILABLE
    running,        \* the loop asyncio.get_running_loop() finds, or NoLoop
    gone,           \* loops that were closed and freed
    tasks,          \* the close_all coroutines: position and locals
    last,           \* history: the arguments the newest client was built from
    got,            \* history: per caller, what get_client last returned to it
    made,           \* history: per key, clients built since the last disruption
    fresh,          \* history: per key, uncached when the calls began
    response        \* what the last BaseAPIService.handle_error call came to

vars == <<clients, loop_id, handles, SOCKS_AVAILABLE, PROXY_CONFIG_AVAILABLE,
          running, gone, tasks, last, got, made, fresh, response>>

----------------------------------------------------------------------------
(* Bounds of the model *)

\* the number of client objects a behaviour of Spec may construct
MaxHandles == 3

\* the number of client objects a behaviour of SpecOpts or SpecKeys may construct
MaxOptHandles == 2

\* the number of client objects a behaviour of SpecCfg may construct
MaxCfgHandles == 1

Callers == {"c1", "c2"}
Tasks == {"t1", "t2"}
Loops == {"L1", "L2", "L3"}
NoLoop == "NoLoop"

----------------------------------------------------------------------------
(* Python values *)

None == <<"<None>">>

\* truth value of an Optional[str]
Truthy(s) == s # None /\ s # <<>>

\* `a or b` on Optional[str]
PyOr(a, b) == IF Truthy(a) THEN a ELSE b

\* str.startswith(prefix)
StartsWith(s, p) == Len(s) >= Len(p) /\ SubSeq(s, 1, Len(p)) = p

\* str.startswith(tuple of prefixes)
StartsWithAny(s, ps) == \E p \in ps : StartsWith(s, p)

LowerTok(t) ==
    CASE t = "TRUE" -> "true"
      [] t = "True" -> "true"
      [] t = "FALSE" -> "false"
      [] t = "False" -> "false"
      [] t = "YES" -> "yes"
      [] OTHER -> t

\* str.lower()
Lower(s) == [i \in 1..Len(s) |-> LowerTok(s[i])]

IsSpace(t) == t = " "

RECURSIVE LStrip(_)
LStrip(s) == IF s # <<>> /\ IsSpace(Head(s)) THEN LStrip(Tail(s)) ELSE s

RECURSIVE RStrip(_)
RStrip(s) ==
    IF s # <<>> /\ IsSpace(s[Len(s)]) THEN RStrip(SubSeq(s, 1, Len(s) - 1)) ELSE s

\* str.strip()
Strip(s) == RStrip(LStrip(s))

\* dict operations, insertion order kept: `k in d`, d[k], d[k] = v, keys, values
DictHas(d, k) == \E i \in 1..Len(d) : d[i][1] = k
DictGet(d, k) == d[CHOOSE i \in 1..Len(d) : d[i][1] = k][2]
\* mutant of DictSet: the assignment is lost
DictSetLost(d, k, v) == d

DictSet(d, k, v) ==
    IF DictHas(d, k)
    THEN [i \in 1..Len(d) |-> IF d[i][1] = k THEN <<k, v>> ELSE d[i]]
    ELSE Append(d, <<k, v>>)
\* mutant of DictKeys: only the first key
DictKeysFirst(d) == IF d = <<>> THEN <<>> ELSE <<d[1][1]>>

DictKeys(d) == [i \in 1..Len(d) |-> d[i][1]]
DictValues(d) == {d[i][2] : i \in 1..Len(d)}
\* mutant of DictDel: the entry is read and left in the dict
DictDelKeeps(d, k) == d

\* d after d.pop(k)
DictDel(d, k) == SelectSeq(d, LAMBDA p : p[1] # k)

\* dict.update: entries of b override those of a (a, b: functions on option names)
Update(a, b) == b @@ a

\* id(loop): the address of the loop object.  L3 is allocated where L1 was.
LoopAddr(l) ==
    CASE l = "L1" -> 1
      [] l = "L2" -> 2
      [] l = "L3" -> 1

\* the order in which the loop objects are created
LoopBirth(l) ==
    CASE l = "L1" -> 1
      [] l = "L2" -> 2
      [] l = "L3" -> 3

----------------------------------------------------------------------------
(* utils/proxy_config.py *)

\* os.getenv(name, ''): raw is the variable's value, None when it is unset
Getenv(raw) == IF raw = None THEN <<>> ELSE raw

\* mutant of get_socks5_proxy_url: PROXY_ENABLED=false is not looked at
get_socks5_proxy_url_no_switch(env) ==
    LET proxy_url == Strip(Getenv(env.SOCKS5_PROXY_URL))
    IN  IF proxy_url # <<>> THEN proxy_url ELSE None

\* get_socks5_proxy_url() under the environment env
get_socks5_proxy_url(env) ==
    LET proxy_enabled == Lower(Getenv(env.PROXY_ENABLED))
        proxy_url == Strip(Getenv(env.SOCKS5_PROXY_URL))
    IN  IF proxy_enabled = <<"false">> THEN None
        ELSE IF proxy_enabled = <<"true">> /\ proxy_url = <<>> THEN None
        ELSE IF proxy_enabled = <<>> /\ proxy_url = <<>> THEN None
        ELSE IF proxy_url # <<>> THEN proxy_url ELSE None

----------------------------------------------------------------------------
(* services/core.py: HTTPClientPool.get_client, building a client *)

ConnectTimeout == 10
WriteTimeout == 60
DefaultTimeout == 60
MaxKeepalive == 10
MaxConnections == 20
KeepaliveExpiry == 60

SocksPrefixes ==
    { <<"socks5", "://">>, <<"socks5h", "://">>,
      <<"socks4", "://">>, <<"socks4h", "://">> }

HttpPrefixes == { <<"http", "://">>, <<"https", "://">> }

\* mutant of Timeout: the caller's timeout for every phase
TimeoutUniform(timeout) ==
    [connect |-> timeout, read |-> timeout, write |-> timeout, pool |-> timeout]

\* httpx.Timeout(timeout, connect=10.0, read=timeout, write=60.0)
Timeout(timeout) ==
    [connect |-> ConnectTimeout, read |-> timeout,
     write |-> WriteTimeout, pool |-> timeout]

\* client_kwargs as first assigned
BaseKwargs(timeout, verify_ssl) ==
    [x \in {"timeout", "verify", "follow_redirects", "http2", "trust_env", "limits"} |->
        CASE x = "timeout" -> Timeout(timeout)
          [] x = "verify" -> verify_ssl
          [] x = "follow_redirects" -> TRUE
          [] x = "http2" -> FALSE
          [] x = "trust_env" -> FALSE
          [] x = "limits" -> [max_keepalive_connections |-> MaxKeepalive,
                              max_connections |-> MaxConnections,
                              keepalive_expiry |-> KeepaliveExpiry]]

\* proxy_url: the proxy argument, else the environment's
EffectiveProxy(proxy, env, cfgAvail) ==
    IF ~Truthy(proxy) /\ cfgAvail THEN get_socks5_proxy_url(env) ELSE proxy

\* AsyncProxyTransport.from_url(proxy_url), when it does not raise
SocksTransport(proxy_url) == [kind |-> "socks", url |-> proxy_url]

\* whether AsyncProxyTransport.from_url(proxy_url) raises: it does on a URL
\* that names no host
FromUrlRaises(proxy_url) == Len(proxy_url) < 3

\* mutant of ProxyBranch: without SOCKS support the URL is handed to httpx
ProxyBranchNative(proxy_url, socksAvail) ==
    IF Truthy(proxy_url) /\ socksAvail /\ StartsWithAny(proxy_url, SocksPrefixes)
    THEN IF FromUrlRaises(proxy_url)
         THEN [add |-> <<>>, warn |-> {"socks_failed"}]
         ELSE [add |-> [x \in {"transport"} |-> SocksTransport(proxy_url)],
               warn |-> {}]
    ELSE IF Truthy(proxy_url)
    THEN [add |-> [x \in {"proxies"} |-> proxy_url],
          warn |-> IF socksAvail THEN {} ELSE {"socks_missing"}]
    ELSE [add |-> <<>>, warn |-> {}]

\* the `if proxy_url and _SOCKS_AVAILABLE: ... elif ...` statement:
\* the entries it adds to client_kwargs and the warnings it logs
ProxyBranch(proxy_url, socksAvail) ==
    IF Truthy(proxy_url) /\ socksAvail
    THEN IF StartsWithAny(proxy_url, SocksPrefixes)
         THEN IF FromUrlRaises(proxy_url)
              THEN [add |-> <<>>, warn |-> {"socks_failed"}]
              ELSE [add |-> [x \in {"transport"} |-> SocksTransport(proxy_url)],
                    warn |-> {}]
         ELSE [add |-> [x \in {"proxies"} |-> proxy_url], warn |-> {}]
    ELSE IF Truthy(proxy_url) /\ ~socksAvail
    THEN [add |-> <<>>, warn |-> {"socks_missing"}]
    ELSE [add |-> <<>>, warn |-> {}]

\* mutant of ExplicitHttpBranch: the explicit proxy is not applied again
ExplicitHttpBranchSkipped(proxy, proxy_url) == [add |-> <<>>, warn |-> {}]

\* the `if proxy and proxy_url and proxy_url.startswith(('http://', 'https://'))`
ExplicitHttpBranch(proxy, proxy_url) ==
    IF Truthy(proxy) /\ Truthy(proxy_url) /\ StartsWithAny(proxy_url, HttpPrefixes)
    THEN [add |-> [x \in {"proxies"} |-> proxy], warn |-> {"http_override"}]
    ELSE [add |-> <<>>, warn |-> {}]

\* the keyword arguments httpx.AsyncClient is constructed with, and the warnings
BuildClient(a, env, socksAvail, cfgAvail) ==
    LET proxy_url == EffectiveProxy(a.proxy, env, cfgAvail)
        b1 == ProxyBranch(proxy_url, socksAvail)
        b2 == ExplicitHttpBranch(a.proxy, proxy_url)
        k0 == BaseKwargs(a.timeout, a.verify_ssl)
        k1 == Update(k0, b1.add)
        k2 == Update(k1, b2.add)
    IN  [cfg |-> Update(k2, a.kwargs), warn |-> b1.warn \cup b2.warn,
         proxy_url |-> proxy_url]

\* whether get_client calls get_socks5_proxy_url()
Resolves(proxy, cfgAvail) == ~Truthy(proxy) /\ cfgAvail

\* mutant of CacheKey: the provider, whatever the base_url
CacheKeyProvider(a) == a.provider

\* cache_key = base_url or provider
CacheKey(a) == PyOr(a.base_url, a.provider)

----------------------------------------------------------------------------
(* Inputs *)

NoKwargs == <<>>

Args(provider, base_url, timeout, proxy, verify_ssl, kwargs) ==
    [provider |-> provider, base_url |-> base_url, timeout |-> timeout,
     proxy |-> proxy, verify_ssl |-> verify_ssl, kwargs |-> kwargs]

Env(enabled, url) == [PROXY_ENABLED |-> enabled, SOCKS5_PROXY_URL |-> url]

NoEnv == Env(None, None)

\* the calls of Spec: two cache keys, the default configuration
LifecycleArgs ==
    { Args(<<"p">>, b, DefaultTimeout, None, TRUE, NoKwargs) : b \in {None, <<"u">>} }

ProxyArgs ==
    { None, <<>>, <<"http", "://", "a">>, <<"https", "://", "a">>,
      <<"socks5", "://", "s">>, <<"socks4h", "://">>,
      <<"ftp", "://", "x">> }

KwargsArgs ==
    { NoKwargs,
      [x \in {"proxies"} |-> <<"http", "://", "z">>],
      [x \in {"transport"} |-> SocksTransport(<<"socks5", "://", "z">>)] }

\* the calls of SpecCfg: one cache key, every proxy argument
CfgArgs ==
    { Args(<<"p">>, None, DefaultTimeout, x, TRUE, kw) :
        x \in ProxyArgs, kw \in KwargsArgs }

\* the environments of SpecCfg: PROXY_ENABLED and SOCKS5_PROXY_URL
Envs ==
    { NoEnv,
      Env(None, <<"http", "://", "b">>),
      Env(<<"True">>, <<" ", "socks5", "://", "t", " ">>),
      Env(<<"false">>, <<"http", "://", "b">>) }

\* the calls of SpecOpts, all for one cache key: the default configuration,
\* and calls that differ from it in timeout, proxy, verify_ssl or **kwargs
DefaultArgs == Args(<<"p">>, None, DefaultTimeout, None, TRUE, NoKwargs)

OptArgs ==
    { Args(<<"p">>, None, 30, None, TRUE, NoKwargs),
      Args(<<"p">>, None, 120, None, TRUE, NoKwargs),
      Args(<<"p">>, None, DefaultTimeout, <<"http", "://", "a">>, TRUE, NoKwargs),
      Args(<<"p">>, None, DefaultTimeout, None, FALSE, NoKwargs),
      Args(<<"p">>, None, DefaultTimeout, None, TRUE, [x \in {"timeout"} |-> 5]),
      Args(<<"p">>, None, 30, <<"http", "://", "a">>, FALSE, [x \in {"timeout"} |-> 5]) }

\* the environments of SpecEnv: every flag with every URL
EnvMatrix ==
    { Env(e, u) :
        e \in {None, <<>>, <<"true">>, <<"TRUE">>, <<"false">>, <<"False">>, <<"yes">>},
        u \in {None, <<>>, <<" ">>, <<"http", "://", "b">>, <<"socks5", "://", "t">>,
               <<" ", "socks5", "://", "t", " ">>} }

\* the calls of SpecEnv: no proxy argument, so that the environment decides
EnvArgs ==
    { Args(<<"p">>, None, DefaultTimeout, x, TRUE, NoKwargs) : x \in {None, <<>>} }

\* the calls of SpecLoops, all for one cache key: the callers that run in one
\* loop, and those that run in none, pass a timeout of their own
LoopTimeout(l) ==
    CASE l = NoLoop -> DefaultTimeout
      [] l = "L1" -> 10
      [] l = "L2" -> 20
      [] l = "L3" -> 30

ArgsIn(l) == Args(<<"p">>, None, LoopTimeout(l), None, TRUE, NoKwargs)

\* the calls of SpecKeys: two providers, with no, an empty and two base_urls
KeyArgs ==
    { Args(p, b, DefaultTimeout, None, TRUE, NoKwargs) :
        p \in {<<"p">>, <<"q">>}, b \in {None, <<>>, <<"u">>, <<"v">>} }

AllKeys == {CacheKey(a) : a \in LifecycleArgs \cup CfgArgs \cup KeyArgs}

----------------------------------------------------------------------------
(* services/core.py: HTTPClientPool *)

\* mutant of check_loop_change: a changed loop is recorded, the cache is kept
check_loop_change_keeps(lid, cl, run) ==
    IF run = NoLoop THEN [loop_id |-> lid, clients |-> cl, ret |-> FALSE]
    ELSE IF lid = 0 THEN [loop_id |-> LoopAddr(run), clients |-> cl, ret |-> FALSE]
    ELSE [loop_id |-> LoopAddr(run), clients |-> cl, ret |-> lid # LoopAddr(run)]

\* mutant of check_loop_change: no running loop counts as a changed loop
check_loop_change_strict(lid, cl, run) ==
    IF run = NoLoop THEN [loop_id |-> 0, clients |-> <<>>, ret |-> TRUE]
    ELSE IF lid = 0 THEN [loop_id |-> LoopAddr(run), clients |-> cl, ret |-> FALSE]
    ELSE IF lid # LoopAddr(run)
         THEN [loop_id |-> LoopAddr(run), clients |-> <<>>, ret |-> TRUE]
         ELSE [loop_id |-> lid, clients |-> cl, ret |-> FALSE]

\* _check_loop_change(): the new _loop_id and _clients, and the value returned.
\* run is the running loop, NoLoop when get_running_loop() raises RuntimeError.
check_loop_change(lid, cl, run) ==
    IF run = NoLoop THEN [loop_id |-> lid, clients |-> cl, ret |-> FALSE]
    ELSE IF lid = 0 THEN [loop_id |-> LoopAddr(run), clients |-> cl, ret |-> FALSE]
    ELSE IF lid # LoopAddr(run)
         THEN [loop_id |-> LoopAddr(run), clients |-> <<>>, ret |-> TRUE]
         ELSE [loop_id |-> lid, clients |-> cl, ret |-> FALSE]

\* mutant of CacheHit: the cache is never used
CacheHitNever(cl, hs, key) == FALSE

\* mutant of CacheHit: the test of is_closed is inverted
CacheHitWhenClosed(cl, hs, key) == DictHas(cl, key) /\ hs[DictGet(cl, key)].is_closed

\* `if cache_key in cls._clients: client = ...; if not client.is_closed: return client`
CacheHit(cl, hs, key) == DictHas(cl, key) /\ ~hs[DictGet(cl, key)].is_closed

\* httpx.AsyncClient(**client_kwargs)
\* mutant of NewClient: the client is constructed closed
NewClientClosed(b) == [cfg |-> b.cfg, is_closed |-> TRUE, tried |-> FALSE]

NewClient(b) == [cfg |-> b.cfg, is_closed |-> FALSE, tried |-> FALSE]

\* history: the call that constructs a client, the proxy_url it computed, the
\* warnings it logged, and the environment get_socks5_proxy_url read if called
Built(a, b, env, cfgAvail) ==
    [proxy |-> a.proxy, timeout |-> a.timeout, verify_ssl |-> a.verify_ssl,
     kwargs |-> a.kwargs, proxy_url |-> b.proxy_url, warn |-> b.warn,
     resolved |-> Resolves(a.proxy, cfgAvail),
     env |-> IF Resolves(a.proxy, cfgAvail) THEN env ELSE NoEnv]

NoLast ==
    [proxy |-> None, timeout |-> 0, verify_ssl |-> TRUE,
     kwargs |-> <<>>, proxy_url |-> None, warn |-> {},
     resolved |-> FALSE, env |-> NoEnv]

NoGot == [key |-> <<>>, h |-> 0, provider |-> <<>>, base_url |-> None]

\* history: a get_client call of caller c for provider and base_url returned h
\* for key
Returned(c, a, key, h, built) ==
    /\ got' = [got EXCEPT ![c] = [key |-> key, h |-> h, provider |-> a.provider,
                                  base_url |-> a.base_url]]
    /\ made' = IF built THEN [made EXCEPT ![key] = @ + 1] ELSE made
    /\ fresh' = fresh

\* history: close_all ran, or the running loop changed
Disrupted(cl) ==
    /\ got' = [c \in Callers |-> NoGot]
    /\ made' = [k \in AllKeys |-> 0]
    /\ fresh' = [k \in AllKeys |-> ~DictHas(cl, k)]

IdleTask ==
    [pc |-> "idle", keys |-> <<>>, client |-> 0, loop |-> NoLoop, alone |-> FALSE,
     snap |-> {}]

\* history: a pool call was made by another than task me; a suspended close_all
\* was interleaved with it, a finished one is no longer the last call
Interleaved(ts, me) ==
    [t \in Tasks |->
        IF t = me THEN ts[t]
        ELSE IF ts[t].pc = "await" THEN [ts[t] EXCEPT !.alone = FALSE, !.snap = {}]
        ELSE IdleTask]

\* get_client(provider, base_url, timeout, proxy, verify_ssl, **kwargs) called by
\* c; env is the environment get_socks5_proxy_url reads, cap the bound on the
\* clients constructed.
GetClient(c, a, env, cap) ==
    LET chk == check_loop_change(loop_id, clients, running)
        cache_key == CacheKey(a)
        b == BuildClient(a, env, SOCKS_AVAILABLE, PROXY_CONFIG_AVAILABLE)
        client == Len(handles) + 1
    IN  /\ loop_id' = chk.loop_id
        /\ IF CacheHit(chk.clients, handles, cache_key)
           THEN /\ clients' = chk.clients
                /\ handles' = handles
                /\ last' = last
                /\ Returned(c, a, cache_key, DictGet(chk.clients, cache_key), FALSE)
           ELSE /\ Len(handles) < cap
                /\ handles' = Append(handles, NewClient(b))
                /\ last' = Built(a, b, env, PROXY_CONFIG_AVAILABLE)
                /\ clients' = DictSet(chk.clients, cache_key, client)
                /\ Returned(c, a, cache_key, client, TRUE)
        /\ tasks' = Interleaved(tasks, "")
        /\ UNCHANGED <<SOCKS_AVAILABLE, PROXY_CONFIG_AVAILABLE, running, gone, response>>

\* close_all from the head of its for loop, keys being the rest of
\* list(cls._clients.keys()), to its next suspension, return or raise; hs are
\* the clients, snap (history) the clients cached when the call started, kept
\* while no other pool call is interleaved, and tried (history) marks a client
\* whose aclose() close_all has called
CloseAllLoop(t, keys, alone, snap, hs) ==
    IF keys = <<>>
    THEN /\ tasks' = [Interleaved(tasks, t) EXCEPT ![t] =
                        [IdleTask EXCEPT !.pc = "done", !.alone = alone,
                                         !.snap = snap]]
         /\ clients' = clients
         /\ handles' = hs
    ELSE IF ~DictHas(clients, Head(keys))
    THEN \* cls._clients.pop(key) raises KeyError, outside the try
         /\ tasks' = [Interleaved(tasks, t) EXCEPT ![t] =
                        [IdleTask EXCEPT !.pc = "raised", !.alone = alone]]
         /\ clients' = clients
         /\ handles' = hs
    ELSE /\ tasks' = [Interleaved(tasks, t) EXCEPT ![t] =
                        [pc |-> "await", keys |-> Tail(keys),
                         client |-> DictGet(clients, Head(keys)),
                         loop |-> running, alone |-> alone, snap |-> snap]]
         /\ clients' = DictDel(clients, Head(keys))
         /\ handles' = [hs EXCEPT ![DictGet(clients, Head(keys))].tried = TRUE]

\* a close_all() coroutine starts running in the running loop
CloseAllStart(t) ==
    /\ running # NoLoop
    /\ tasks[t].pc # "await"
    /\ CloseAllLoop(t, DictKeys(clients), TRUE, DictValues(clients), handles)
    /\ Disrupted(clients')
    /\ UNCHANGED <<loop_id, SOCKS_AVAILABLE, PROXY_CONFIG_AVAILABLE, running, gone, last,
                   response>>

\* `await client.aclose()` completes (closed) or raises (swallowed by `except:`),
\* and close_all runs on
CloseAllResume(t, closed) ==
    /\ tasks[t].pc = "await"
    /\ tasks[t].loop = running
    /\ CloseAllLoop(t, tasks[t].keys, tasks[t].alone, tasks[t].snap,
                    IF closed
                    THEN [handles EXCEPT ![tasks[t].client].is_closed = TRUE]
                    ELSE handles)
    /\ Disrupted(clients')
    /\ UNCHANGED <<loop_id, SOCKS_AVAILABLE, PROXY_CONFIG_AVAILABLE, running, gone, last,
                   response>>

----------------------------------------------------------------------------
(* The environment of the pool *)

\* the loops whose object must be freed before l can be allocated at its address
Before(l) ==
    {m \in Loops : LoopAddr(m) = LoopAddr(l) /\ LoopBirth(m) < LoopBirth(l)}

Pending(l) == \E t \in Tasks : tasks[t].pc = "await" /\ tasks[t].loop = l

\* another loop starts running (asyncio.run, run_until_complete), or none does;
\* a loop allocated where earlier ones were starts once those are freed
Switch(l) ==
    /\ l # running
    /\ IF l = NoLoop THEN gone' = gone
       ELSE /\ l \notin gone
            /\ \A m \in Before(l) \ gone : ~Pending(m)
            /\ gone' = gone \cup Before(l)
    /\ running' = l
    /\ Disrupted(clients)
    /\ UNCHANGED <<clients, loop_id, handles, SOCKS_AVAILABLE,
                   PROXY_CONFIG_AVAILABLE, tasks, last, response>>

\* a caller closes the client cached under key (await client.aclose())
CallerCloses(key) ==
    /\ DictHas(clients, key)
    /\ ~handles[DictGet(clients, key)].is_closed
    /\ handles' = [handles EXCEPT ![DictGet(clients, key)].is_closed = TRUE]
    /\ got' = [c \in Callers |-> IF got[c].key = key THEN NoGot ELSE got[c]]
    /\ made' = [made EXCEPT ![key] = 0]
    /\ fresh' = [fresh EXCEPT ![key] = FALSE]
    /\ UNCHANGED <<clients, loop_id, SOCKS_AVAILABLE, PROXY_CONFIG_AVAILABLE,
                   running, gone, tasks, last, response>>

----------------------------------------------------------------------------
(* BaseAPIService *)

\* the exceptions and providers handle_error is called with
Errors == {<<"timeout">>, <<"refused">>, <<>>}
Providers == {<<"p">>, <<"q">>}

\* format_api_error(error, provider) of utils.common: the message for the
\* provider, or (ok false) an exception of its own
format_api_error(error, provider, ok) ==
    IF ok
    THEN [raised |-> FALSE, value |-> <<provider, error>>]
    ELSE [raised |-> TRUE, value |-> None]

NoResponse == [kind |-> "none", success |-> TRUE, error |-> None]

\* await service.handle_error(error, provider): no try surrounds the call of
\* format_api_error, so its exception leaves handle_error
HandleError(error, provider, ok) ==
    LET error_message == format_api_error(error, provider, ok)
    IN  /\ response' =
              IF error_message.raised
              THEN [kind |-> "raised", success |-> TRUE, error |-> None]
              ELSE [kind |-> "returned", success |-> FALSE,
                    error |-> error_message.value]
        /\ UNCHANGED <<clients, loop_id, handles, SOCKS_AVAILABLE,
                       PROXY_CONFIG_AVAILABLE, running, gone, tasks, last, got,
                       made, fresh>>

----------------------------------------------------------------------------
(* Specifications *)

InitPool ==
    /\ clients = <<>>
    /\ loop_id = 0
    /\ handles = <<>>
    /\ running = NoLoop
    /\ gone = {}
    /\ tasks = [t \in Tasks |-> IdleTask]
    /\ last = NoLast
    /\ got = [c \in Callers |-> NoGot]
    /\ made = [k \in AllKeys |-> 0]
    /\ fresh = [k \in AllKeys |-> TRUE]
    /\ response = NoResponse

Init ==
    /\ InitPool
    /\ SOCKS_AVAILABLE = TRUE
    /\ PROXY_CONFIG_AVAILABLE = TRUE

Environment ==
    \/ \E l \in {"L1", "L2", NoLoop} : Switch(l)
    \/ \E k \in AllKeys : CallerCloses(k)

Shutdown ==
    \/ \E t \in Tasks : CloseAllStart(t)
    \/ \E t \in Tasks, closed \in BOOLEAN : CloseAllResume(t, closed)

Next ==
    \/ \E c \in Callers, a \in LifecycleArgs : GetClient(c, a, NoEnv, MaxHandles)
    \/ Shutdown
    \/ Environment

Spec == Init /\ [][Next]_vars

\* The configuration of a client: every proxy argument, environment and
\* availability of the optional modules; one key, one caller, one close_all
InitCfg ==
    /\ InitPool
    /\ SOCKS_AVAILABLE \in BOOLEAN
    /\ PROXY_CONFIG_AVAILABLE \in BOOLEAN

NextCfg ==
    \/ \E a \in CfgArgs, env \in Envs : GetClient("c1", a, env, MaxCfgHandles)
    \/ CloseAllStart("t1")
    \/ \E closed \in BOOLEAN : CloseAllResume("t1", closed)
    \/ \E l \in {"L1", NoLoop} : Switch(l)

SpecCfg == InitCfg /\ [][NextCfg]_vars

\* Shutdown in a loop that keeps running: an awaited aclose() is resumed
NextDrain ==
    \/ \E a \in LifecycleArgs : GetClient("c1", a, NoEnv, MaxHandles)
    \/ CloseAllStart("t1")
    \/ \E closed \in BOOLEAN : CloseAllResume("t1", closed)
    \/ Switch("L1")
    \/ \E k \in AllKeys : CallerCloses(k)

SpecDrain ==
    /\ Init
    /\ [][NextDrain]_vars
    /\ WF_vars(\E closed \in BOOLEAN : CloseAllResume("t1", closed))

\* A service: it gets its clients from the pool and reports its errors
NextService ==
    \/ \E a \in LifecycleArgs : GetClient("c1", a, NoEnv, MaxCfgHandles)
    \/ \E e \in Errors, p \in Providers, ok \in BOOLEAN : HandleError(e, p, ok)
    \/ \E l \in {"L1", NoLoop} : Switch(l)
    \/ \E k \in AllKeys : CallerCloses(k)

SpecService == Init /\ [][NextService]_vars

\* The options of a call: caller c1 asks with the default configuration, c2
\* with other timeouts, proxies, verify_ssl and **kwargs, for the same key
NextOpts ==
    \/ GetClient("c1", DefaultArgs, NoEnv, MaxOptHandles)
    \/ \E a \in OptArgs : GetClient("c2", a, NoEnv, MaxOptHandles)
    \/ \E l \in {"L1", NoLoop} : Switch(l)
    \/ \E k \in AllKeys : CallerCloses(k)

SpecOpts == Init /\ [][NextOpts]_vars

\* The keys of the cache: callers ask for two providers and several base_urls
NextKeys ==
    \/ \E c \in Callers, a \in KeyArgs : GetClient(c, a, NoEnv, MaxOptHandles)
    \/ \E l \in {"L1", NoLoop} : Switch(l)
    \/ \E k \in AllKeys : CallerCloses(k)

SpecKeys == Init /\ [][NextKeys]_vars

\* Loops that come and go: asyncio.run after asyncio.run, the third loop
\* allocated where the first one was
NextLoops ==
    \/ GetClient("c1", ArgsIn(running), NoEnv, MaxOptHandles)
    \/ \E l \in Loops \cup {NoLoop} : Switch(l)
    \/ CloseAllStart("t1")
    \/ \E closed \in BOOLEAN : CloseAllResume("t1", closed)

SpecLoops == Init /\ [][NextLoops]_vars

\* The resolution of the proxy from the environment: a client is built under
\* every PROXY_ENABLED and SOCKS5_PROXY_URL, with or without a running loop
NextEnv ==
    \/ \E a \in EnvArgs, env \in EnvMatrix : GetClient("c1", a, env, MaxCfgHandles)
    \/ \E l \in {"L1", NoLoop} : Switch(l)

SpecEnv == Init /\ [][NextEnv]_vars

----------------------------------------------------------------------------
(* Steps, as the history variables show them *)

\* a get_client call of caller c returned in this step
GetClientBy(c) == got'[c] # NoGot /\ got'[c] # got[c]

\* this step is a get_client call: a caller holds what it returned, and no
\* existing client object changed
GetClientStep ==
    /\ \E c \in Callers : got'[c] # NoGot
    /\ Len(handles') >= Len(handles)
    /\ \A h \in 1..Len(handles) : handles'[h] = handles[h]

\* the cache entry of key k: the client cached, 0 when k is not a key
Entry(cl, k) == IF DictHas(cl, k) THEN DictGet(cl, k) ELSE 0

\* a close_all call has returned, no other pool call was made since it started
CleanDone == \E t \in Tasks : tasks[t].pc = "done" /\ tasks[t].alone

----------------------------------------------------------------------------
(* Claims *)

\* C1 (idempotent reuse): when a get_client call returns for a key for which
\* a call made in the same execution context already returned a handle, with
\* no close_all step, no change of the running loop and no close of that
\* handle since, it returns that same handle and constructs no client.
C1_IdempotentReuse ==
    [][\A c \in Callers : GetClientBy(c) =>
         \A d \in Callers :
            (got[d] # NoGot /\ got[d].key = got'[c].key) =>
                /\ got'[c].h = got[d].h
                /\ handles' = handles]_vars

\* C1 witness: both callers were given the same handle for the same key
C1_Witness ==
    /\ got["c1"] # NoGot
    /\ got["c1"] = got["c2"]
    /\ running # NoLoop

\* C2 (context invalidation is pool-wide): a get_client call made in a running
\* loop whose id differs from the recorded one records that id and leaves the
\* cache with exactly one entry, the requested key mapped to a client the call
\* constructed; no client cached before the call is still cached.
C2_ContextInvalidation ==
    [][(GetClientStep /\ running # NoLoop /\ loop_id # 0
                      /\ loop_id # LoopAddr(running)) =>
         /\ loop_id' = LoopAddr(running)
         /\ \E c \in Callers :
              /\ GetClientBy(c)
              /\ clients' = << <<got'[c].key, got'[c].h>> >>
              /\ got'[c].h = Len(handles) + 1
              /\ Len(handles') = Len(handles) + 1
         /\ DictValues(clients) \cap DictValues(clients') = {}]_vars

\* C2 witness: a key that was cached when the loop changed is no longer
\* cached, no close_all ran since, and the one cached client was built since
C2_Witness ==
    \E k \in AllKeys, j \in AllKeys :
        /\ k # j
        /\ ~fresh[j] /\ ~DictHas(clients, j)
        /\ DictKeys(clients) = <<k>>
        /\ made[k] = 1
        /\ running # NoLoop /\ loop_id = LoopAddr(running)

\* C3 (no duplicate creation): when callers sharing one loop call get_client
\* for a key that was not cached when their calls began, with nothing but
\* get_client calls in between, exactly one client was constructed for the
\* key, it is the one cached, and each caller was given it.
C3_NoDuplicateCreation ==
    \A k \in AllKeys :
        LET cs == {c \in Callers : got[c] # NoGot /\ got[c].key = k}
        IN  (fresh[k] /\ cs # {}) =>
                /\ made[k] = 1
                /\ DictHas(clients, k)
                /\ \A c \in cs : got[c].h = DictGet(clients, k)

\* C3 witness: every caller has called for the same, previously uncached key
C3_Witness ==
    \E k \in AllKeys :
        /\ fresh[k]
        /\ \A c \in Callers : got[c] # NoGot /\ got[c].key = k
        /\ running # NoLoop

\* C4 (shutdown drains): when a close_all call that no other pool call
\* interleaved returns, the cache is empty; the next get_client call returns
\* an open client that this call constructed and cached, not one that existed.
C4_ShutdownDrains ==
    [][/\ CleanDone' => clients' = <<>>
       /\ \A c \in Callers : (CleanDone /\ GetClientBy(c)) =>
            /\ got'[c].h = Len(handles) + 1
            /\ Len(handles') = Len(handles) + 1
            /\ ~handles'[got'[c].h].is_closed
            /\ Entry(clients', got'[c].key) = got'[c].h]_vars

\* C4 witness: a client was constructed right after a close_all that had
\* clients to close
C4_Witness ==
    /\ Len(handles) >= 2
    /\ \A t \in Tasks : tasks[t].pc = "idle"
    /\ \A k \in AllKeys : fresh[k]
    /\ \E h \in 1..(Len(handles) - 1) : handles[h].is_closed
    /\ clients = << <<got["c1"].key, Len(handles)>> >>
    /\ ~handles[Len(handles)].is_closed

\* C5 (close_all never raises): no close_all call ends by raising.
C5_CloseAllNeverRaises == \A t \in Tasks : tasks[t].pc # "raised"

\* C6 (shutdown serialized against insertions): whenever a close_all call
\* returns, the cache is empty.
C6_EmptyOnReturn == \A t \in Tasks : tasks[t].pc = "done" => clients = <<>>

\* C7 (no-context calls never invalidate): a get_client call made while no
\* loop is running leaves the recorded loop id as it was, removes no cache
\* entry, and changes no entry but that of the key it was called for.
C7_NoContextNoInvalidation ==
    [][(GetClientStep /\ running = NoLoop) =>
         /\ loop_id' = loop_id
         /\ \A k \in AllKeys : DictHas(clients, k) => DictHas(clients', k)
         /\ \A k \in AllKeys : Entry(clients', k) # Entry(clients, k) =>
              \E c \in Callers : GetClientBy(c) /\ got'[c].key = k]_vars

\* C7 witness: a call without a running loop returned for one key while
\* another key stays cached and a loop id stays recorded
C7_Witness ==
    /\ running = NoLoop
    /\ loop_id # 0
    /\ Len(clients) = 2
    /\ \E c \in Callers : got[c] # NoGot /\ got[c].h = Len(handles) /\ made[got[c].key] = 1

\* the newest client object
Newest == handles[Len(handles)]

\* the forward proxy a client is configured with, None when it has none
Proxies(cfg) == IF "proxies" \in DOMAIN cfg THEN cfg["proxies"] ELSE None

\* the transport a client is configured with: its kind, "default" when none was given
TransportKind(cfg) == IF "transport" \in DOMAIN cfg THEN cfg["transport"].kind ELSE "default"

\* the newest client was built from an explicit http:// or https:// proxy argument
ExplicitHttp == Truthy(last.proxy) /\ StartsWithAny(last.proxy, HttpPrefixes)

\* the newest client was built with a SOCKS effective proxy, and either SOCKS
\* support is missing or the construction of the SOCKS transport failed
SocksDegraded ==
    /\ Truthy(last.proxy_url)
    /\ StartsWithAny(last.proxy_url, SocksPrefixes)
    /\ ~SOCKS_AVAILABLE \/ FromUrlRaises(last.proxy_url)

\* the newest client was built with a non-empty effective proxy that is not SOCKS
NonSocksProxy ==
    /\ Truthy(last.proxy_url)
    /\ ~StartsWithAny(last.proxy_url, SocksPrefixes)

\* this step constructed a client
BuildStep == Len(handles') = Len(handles) + 1

\* C8 as stated (proxy precedence): a client built from an explicit http://
\* or https:// proxy argument has exactly that proxy as its forward proxy.
C8_ExplicitProxyWins ==
    (Len(handles) >= 1 /\ ExplicitHttp) => Proxies(Newest.cfg) = last.proxy

\* C8 amended: a client built from an explicit http:// or https:// proxy
\* argument, by a call whose extra options name no "proxies", has exactly
\* that proxy as its forward proxy, whatever the environment resolves to and
\* whether or not SOCKS support is available.
C8_ExplicitProxyWinsNoOverride ==
    (Len(handles) >= 1 /\ ExplicitHttp /\ "proxies" \notin DOMAIN last.kwargs) =>
        Proxies(Newest.cfg) = last.proxy

\* C8 witness: without SOCKS support, a client has the caller's http proxy
C8_Witness ==
    /\ Len(handles) >= 1
    /\ ~SOCKS_AVAILABLE
    /\ PROXY_CONFIG_AVAILABLE
    /\ last.proxy = <<"http", "://", "a">>
    /\ last.kwargs = NoKwargs
    /\ Proxies(Newest.cfg) = <<"http", "://", "a">>

\* C9 as stated (SOCKS fallback): a call that builds a client with a SOCKS
\* effective proxy while SOCKS support is missing, or the construction of the
\* SOCKS transport fails, returns and caches the client, the client has
\* neither a SOCKS transport nor a forward proxy, and a warning is logged.
C9_SocksFallback ==
    [][(BuildStep /\ SocksDegraded') =>
         /\ got'["c1"].h = Len(handles')
         /\ Entry(clients', got'["c1"].key) = Len(handles')
         /\ TransportKind(Newest'.cfg) # "socks"
         /\ Proxies(Newest'.cfg) = None
         /\ last'.warn # {}]_vars

\* C9 amended: the same, for a call whose extra options name neither
\* "transport" nor "proxies".
C9_SocksFallbackNoOverride ==
    [][(BuildStep /\ SocksDegraded'
                  /\ DOMAIN last'.kwargs \cap {"transport", "proxies"} = {}) =>
         /\ got'["c1"].h = Len(handles')
         /\ Entry(clients', got'["c1"].key) = Len(handles')
         /\ TransportKind(Newest'.cfg) # "socks"
         /\ Proxies(Newest'.cfg) = None
         /\ last'.warn # {}]_vars

\* C9 witness: a client built from the environment's SOCKS URL without SOCKS
\* support has no transport and no forward proxy, and a warning was logged
C9_Witness ==
    /\ Len(handles) >= 1
    /\ SocksDegraded
    /\ ~SOCKS_AVAILABLE
    /\ ~Truthy(last.proxy)
    /\ last.proxy_url = <<"socks5", "://", "t">>
    /\ last.kwargs = NoKwargs
    /\ DOMAIN Newest.cfg \cap {"transport", "proxies"} = {}
    /\ last.warn = {"socks_missing"}

\* C10 (non-SOCKS pass-through): a client built with a non-empty effective
\* proxy that is not a SOCKS URL, by a call whose extra options name no
\* "proxies", has that URL as its forward proxy.
C10_NonSocksPassThrough ==
    (Len(handles) >= 1 /\ NonSocksProxy /\ "proxies" \notin DOMAIN last.kwargs) =>
        Proxies(Newest.cfg) = last.proxy_url

\* the values of PROXY_ENABLED that switch the proxy off, and on
FlagFalse == { <<"false">>, <<"False">>, <<"FALSE">> }
FlagTrue == { <<"true">>, <<"True">>, <<"TRUE">> }

\* SOCKS5_PROXY_URL is unset or blank
UrlEmpty(u) == u = None \/ \A i \in 1..Len(u) : u[i] = " "

\* the configured URL, without the blanks around it
UrlText(u) == SelectSeq(u, LAMBDA t : t # " ")

\* C11 (proxy resolution policy): get_socks5_proxy_url returns no proxy when
\* PROXY_ENABLED is false, whatever the URL; no proxy when it is true and the
\* URL is empty; and otherwise the URL if it is not empty, no proxy if it is.
C11_ResolutionPolicy ==
    (Len(handles) >= 1 /\ last.resolved) =>
        LET e == last.env.PROXY_ENABLED
            u == last.env.SOCKS5_PROXY_URL
        IN  /\ e \in FlagFalse => last.proxy_url = None
            /\ (e \in FlagTrue /\ UrlEmpty(u)) => last.proxy_url = None
            /\ e \notin FlagFalse =>
                 /\ ~UrlEmpty(u) => last.proxy_url = UrlText(u)
                 /\ UrlEmpty(u) => last.proxy_url = None

\* C11 witness: PROXY_ENABLED=False with a URL set resolved to no proxy
C11_Witness ==
    /\ Len(handles) >= 1
    /\ last.resolved
    /\ last.env = Env(<<"False">>, <<"http", "://", "b">>)
    /\ last.proxy_url = None

\* C12 (every handle is eventually closed by the pool): after get_client calls
\* and loop changes followed by a completed close_all, every client the pool
\* constructed is closed or has had its aclose() called by the pool.
C12_EveryHandleClosed ==
    \A t \in Tasks :
        (tasks[t].pc = "done" /\ tasks[t].alone) =>
            \A h \in 1..Len(handles) : handles[h].is_closed \/ handles[h].tried

\* C13 (shutdown attempts every handle and returns): when an uninterleaved
\* close_all has returned, aclose() was called on every client cached when it
\* started, whether or not an earlier aclose() raised; and a close_all that is
\* suspended in an aclose() returns.
C13_AttemptsAllAndReturns ==
    /\ [](\A t \in Tasks :
            (tasks[t].pc = "done" /\ tasks[t].alone) =>
                \A h \in tasks[t].snap : handles[h].tried)
    /\ (tasks["t1"].pc = "await") ~> (tasks["t1"].pc = "done")

\* C13 witness: an uninterleaved close_all returned after two clients were
\* cached at its start, the aclose() of the first raised, the second is closed
C13_Witness ==
    /\ tasks["t1"].pc = "done"
    /\ tasks["t1"].alone
    /\ tasks["t1"].snap = {1, 2}
    /\ ~handles[1].is_closed /\ handles[1].tried
    /\ handles[2].is_closed /\ handles[2].tried

\* C20 (a handle leaves the cache before its close begins): in every state,
\* also while close_all is suspended in an aclose(), no cached client is one
\* whose aclose() close_all has called.
C20_RemovedBeforeClose ==
    /\ \A i \in 1..Len(clients) : ~handles[clients[i][2]].tried
    /\ \A t \in Tasks :
          tasks[t].pc = "await" => tasks[t].client \notin DictValues(clients)

\* C20 witness: close_all is suspended in the aclose() of one client while
\* another client is still cached
C20_Witness ==
    /\ tasks["t1"].pc = "await"
    /\ handles[tasks["t1"].client].tried
    /\ clients # <<>>

\* C14 (handle_error never throws): for every error and provider, also when
\* format_api_error itself fails, handle_error returns
\* {"success": False, "error": <message>} and raises nothing.
C14_HandleErrorNeverThrows ==
    /\ response.kind # "raised"
    /\ response.kind = "returned" =>
         (response.success = FALSE /\ response.error # None)

\* C15 as stated (timeout configuration): a client built by a call with
\* timeout t and no "timeout" among its extra options has connect timeout 10
\* and read, write and overall (pool) timeouts t.
C15_TimeoutsFollowCaller ==
    (Len(handles) >= 1 /\ "timeout" \notin DOMAIN last.kwargs) =>
        Newest.cfg["timeout"] =
            [connect |-> 10, read |-> last.timeout, write |-> last.timeout,
             pool |-> last.timeout]

\* C15 amended: a client built by a call with timeout t and no "timeout"
\* among its extra options has connect timeout 10, write timeout 60, and read
\* and overall (pool) timeouts t.
C15_TimeoutsWriteFixed ==
    (Len(handles) >= 1 /\ "timeout" \notin DOMAIN last.kwargs) =>
        Newest.cfg["timeout"] =
            [connect |-> 10, read |-> last.timeout, write |-> 60,
             pool |-> last.timeout]

\* C15 witness: a client built with timeout 30 has read and pool timeouts 30,
\* connect timeout 10 and write timeout 60
C15_Witness ==
    /\ Len(handles) >= 1
    /\ last.timeout = 30
    /\ last.kwargs = NoKwargs
    /\ Newest.cfg["timeout"] = [connect |-> 10, read |-> 30, write |-> 60, pool |-> 30]

\* the loop check of a get_client call made now finds no change of loop
SameContext == running = NoLoop \/ loop_id = 0 \/ loop_id = LoopAddr(running)

\* C19 (configuration is fixed by the creating call): when an open client is
\* cached for a key and the running loop has not changed, a get_client call for
\* that key, whatever its timeout, proxy, verify_ssl and extra options, returns
\* the cached client; no client is constructed and no client's configuration
\* changes.
C19_ConfigFixedByCreator ==
    [][\A c \in Callers :
         (/\ GetClientBy(c)
          /\ SameContext
          /\ Entry(clients, got'[c].key) # 0
          /\ ~handles[Entry(clients, got'[c].key)].is_closed) =>
            /\ got'[c].h = Entry(clients, got'[c].key)
            /\ handles' = handles
            /\ last' = last]_vars

\* C19 witness: the client built for c1 with the default configuration was
\* returned to c2, whose calls all ask for another configuration, unchanged
C19_Witness ==
    /\ Len(handles) = 1
    /\ got["c1"].h = 1
    /\ got["c2"].h = 1
    /\ handles[1].cfg = BaseKwargs(DefaultTimeout, TRUE)
    /\ ~handles[1].is_closed

\* C16 (never a closed handle, built only when needed): a get_client call
\* returns an open client; when, after the loop check, an open client is cached
\* for the key it returns that client and constructs none; otherwise it
\* constructs a client, caches it under the key in place of what was there,
\* and returns it.
C16_OpenOrBuilt ==
    [][\A c \in Callers : GetClientBy(c) =>
         LET k == got'[c].key
             e == IF SameContext THEN Entry(clients, k) ELSE 0
         IN  /\ ~handles'[got'[c].h].is_closed
             /\ IF e # 0 /\ ~handles[e].is_closed
                THEN /\ got'[c].h = e
                     /\ handles' = handles
                ELSE /\ got'[c].h = Len(handles) + 1
                     /\ handles' = Append(handles, handles'[Len(handles) + 1])
                     /\ Entry(clients', k) = Len(handles) + 1]_vars

\* C16 witness: the client cached for a key was closed by a caller, and a call
\* for the key was given a second client, now cached under the key
C16_Witness ==
    \E k \in AllKeys :
        /\ Len(handles) = 2
        /\ handles[1].is_closed /\ ~handles[1].tried
        /\ ~fresh[k] /\ made[k] = 1
        /\ clients = << <<k, 2>> >>
        /\ got["c1"].key = k /\ got["c1"].h = 2
        /\ loop_id = 0

\* base_url was given and is not empty
Provided(base_url) == base_url # None /\ base_url # <<>>

\* C18 (cache key derivation): the key of a call is its base_url when one is
\* given and not empty, else its provider; of two calls answered in one
\* context, those with the same base_url and any providers return the same
\* client, those with the same provider and different base_urls different ones.
C18_CacheKeyDerivation ==
    /\ \A c \in Callers : got[c] # NoGot =>
          got[c].key = IF Provided(got[c].base_url) THEN got[c].base_url
                       ELSE got[c].provider
    /\ \A c, d \in Callers : (got[c] # NoGot /\ got[d] # NoGot) =>
          /\ (Provided(got[c].base_url) /\ got[c].base_url = got[d].base_url) =>
                got[c].h = got[d].h
          /\ (/\ got[c].provider = got[d].provider
              /\ Provided(got[c].base_url) /\ Provided(got[d].base_url)
              /\ got[c].base_url # got[d].base_url) =>
                got[c].h # got[d].h

\* C18 witness: two providers with one base_url were given one client, while
\* another client was constructed for another key
C18_Witness ==
    /\ got["c1"].provider = <<"p">> /\ got["c2"].provider = <<"q">>
    /\ got["c1"].base_url = <<"u">> /\ got["c2"].base_url = <<"u">>
    /\ got["c1"].h = got["c2"].h
    /\ got["c1"].h # 0
    /\ Len(handles) = 2

\* the loop that was running when client h was constructed, NoLoop if none
\* was: in SpecLoops the read timeout of a client tells it, ArgsIn(l) being
\* what the calls made in l pass
CreatedIn(h) ==
    CHOOSE l \in Loops \cup {NoLoop} : LoopTimeout(l) = h.cfg["timeout"].read

\* C17 (no cross-context reuse): a get_client call made while loop L is running
\* never returns a client that was constructed while another loop was running.
C17_NoCrossContextReuse ==
    [][(GetClientBy("c1") /\ running # NoLoop
                          /\ CreatedIn(handles'[got'["c1"].h]) # NoLoop) =>
         CreatedIn(handles'[got'["c1"].h]) = running]_vars

====
